---- MODULE Spec2Model ----
(***************************************************************************)
(* NextArt (src/nextart/src/main.rs): the view state machine               *)
(* NextArtView::update, the asynchronous tasks it schedules, and the       *)
(* collection indexer State::index_roms.                                   *)
(*                                                                         *)
(* Conventions.                                                            *)
(*  - Option<T>: None is <<>>, Some(x) is <<x>>.                           *)
(*  - Vec<T> is a sequence; Rust's 0-based index i is element i + 1.       *)
(*    rom_indices and selected_index hold the 0-based values of the code.  *)
(*  - A path is a record [root, coll, media, stem]; a formatted error      *)
(*    string is a record [msg, path, cause] (the constant of strings.rs    *)
(*    that prefixes it, the path it prints, the error it wraps).           *)
(*  - A collection directory's name is its position in the root listing;   *)
(*    a file's stem is a number.                                           *)
(***************************************************************************)
EXTENDS Integers, Sequences, FiniteSets, Bags, TLC

VARIABLES
    view,       \* the NextArtView value (self of update)
    tasks,      \* bag of scheduled tasks that have not completed yet
    disk,       \* the filesystem: root path -> layout of that directory
    cfg,        \* the persisted config.json / the home directory lookup
    last,       \* the message update processed last and the Task it returned
    panicked,   \* update or view hit a panic (index out of bounds, expect)
    scan        \* the indexer run on its own: phase, input and result

vars == <<view, tasks, disk, cfg, last, panicked, scan>>

\* ------------------------------------------------------------------ bounds

MaxRootEntries == 2
MaxDirEntries == 2
MaxStems == 2
MaxErrors == 2
MaxTasks == 2

\* ------------------------------------------------------------ basic values

None == <<>>
Some(x) == <<x>>
IsSome(o) == o # <<>>
Unwrap(o) == o[1]

Paths == {"p1", "p2"}
Stems == 1..MaxStems

P(root, coll, media, stem) ==
    [root |-> root, coll |-> coll, media |-> media, stem |-> stem]
NoPath == P("", 0, FALSE, 0)
RootPath(root) == P(root, 0, FALSE, 0)
CollectionPath(root, c) == P(root, c, FALSE, 0)
MediaFolder(root, c) == P(root, c, TRUE, 0)
BoxartPath(root, c, s) == P(root, c, TRUE, s)

Err(msg, path, cause) == [msg |-> msg, path |-> path, cause |-> cause]

\* Vec::get / indexing with a 0-based index
InRange(v, i) == i >= 0 /\ i < Len(v)
At(v, i) == v[i + 1]

\* ---------------------------------------------------------------- strings

ERROR_CANNOT_NAVIGATE == Err("ERROR_CANNOT_NAVIGATE", NoPath, "")
ERROR_CANNOT_NAVIGATE_COLLECTIONS == Err("ERROR_CANNOT_NAVIGATE_COLLECTIONS", NoPath, "")
ERROR_NO_PATH == Err("ERROR_NO_PATH", NoPath, "")
ERROR_NO_FILE_SELECTED == Err("ERROR_NO_FILE_SELECTED", NoPath, "")
ERROR_NO_HOME_DIRECTORY == Err("ERROR_NO_HOME_DIRECTORY", NoPath, "")

\* -------------------------------------------------------------- data model

Rom(name, boxart_path, boxart_size) ==
    [name |-> name, boxart_path |-> boxart_path, boxart_size |-> boxart_size]

Collection(name, rom_indices) == [name |-> name, rom_indices |-> rom_indices]

IndexDefault == [roms |-> <<>>, collections |-> <<>>]

State(roms_folder, index, errors) ==
    [roms_folder |-> roms_folder, index |-> index, errors |-> errors]

\* --------------------------------------------------------- the filesystem

\* A box-art file: absent, a regular file of len bytes, or a file for which
\* std::fs::exists or std::fs::metadata fails.
Art(st, len) == [st |-> st, len |-> len]
ArtAbsent == Art("absent", 0)
ArtStates == {ArtAbsent, Art("file", 0), Art("file", 3),
              Art("existserr", 0), Art("metaerr", 0)}

\* An entry of a collection directory, as read_dir yields it.
FileEntry(kind, stem) == [kind |-> kind, stem |-> stem]
DirEntryKinds ==
    {FileEntry("enterr", 0), FileEntry("typeerr", 0), FileEntry("dir", 0),
     FileEntry("nostem", 0)} \cup {FileEntry("file", s) : s \in Stems}

\* The .media directory itself, listed by read_dir once it exists.
MediaEntry == FileEntry("dir", 0)

\* An entry of the root directory.
RootEntry(kind, readable, media, entries, art) ==
    [kind |-> kind, readable |-> readable, media |-> media,
     entries |-> entries, art |-> art]
NoArt == [s \in Stems |-> ArtAbsent]
PlainRootEntry(kind) == RootEntry(kind, FALSE, "absent", <<>>, NoArt)

Layout(listable, entries) == [listable |-> listable, entries |-> entries]
Unlistable == Layout(FALSE, <<>>)

SeqsUpTo(S, n) == UNION {[1..k -> S] : k \in 0..n}

StemsOf(entries) ==
    {entries[i].stem : i \in {j \in 1..Len(entries) : entries[j].kind = "file"}}

\* Box art so far exists only inside an existing .media, and only the box
\* art of the files listed is of interest.
CollectionDirs ==
    {RootEntry("dir", FALSE, "absent", <<>>, NoArt)}
    \cup {RootEntry("dir", TRUE, m, es, NoArt) :
            m \in {"absent", "uncreatable"},
            es \in SeqsUpTo(DirEntryKinds, MaxDirEntries)}
    \cup UNION {{RootEntry("dir", TRUE, "present", es, a) :
                    a \in {f \in [Stems -> ArtStates] :
                             \A s \in Stems \ StemsOf(es) : f[s] = ArtAbsent}} :
                es \in SeqsUpTo(DirEntryKinds, MaxDirEntries)}

RootEntries ==
    {PlainRootEntry("enterr"), PlainRootEntry("typeerr"), PlainRootEntry("file")}
    \cup CollectionDirs

Layouts ==
    {Unlistable} \cup {Layout(TRUE, es) : es \in SeqsUpTo(RootEntries, MaxRootEntries)}

\* ------------------------------------------------------------- the indexer

\* What read_dir of a collection directory yields: its entries, and .media
\* once that exists.
Listing(dir) ==
    IF dir.media = "present" THEN Append(dir.entries, MediaEntry) ELSE dir.entries

\* main.rs 203-225: the size recorded for a rom and the error pushed, from
\* what std::fs::exists and std::fs::metadata answer for its boxart_path.
BoxartSize(a) == IF a.st = "file" THEN a.len ELSE 0

\* BoxartErrors that pushes nothing when metadata fails for a file that
\* exists.
BoxartErrors_MetadataSilent(a, boxart_path) ==
    IF a.st = "existserr"
    THEN <<Err("ERROR_PREFIX_GET_METADATA", boxart_path, "io")>>
    ELSE <<>>

BoxartErrors(a, boxart_path) ==
    IF a.st = "metaerr"
    THEN <<Err("ERROR_PREFIX_GET_METADATA", boxart_path, "")>>
    ELSE IF a.st = "existserr"
    THEN <<Err("ERROR_PREFIX_GET_METADATA", boxart_path, "io")>>
    ELSE <<>>

\* PushRom with the index taken after the push: one past the rom's place.
PushRom_IndexAfterPush(acc, rom) ==
    LET roms == Append(acc.state.index.roms, rom)
    IN  [acc EXCEPT !.state.index.roms = roms,
                    !.rom_indices = Append(@, Len(roms))]

\* main.rs 227-228: push the rom, then push its index roms.len() - 1.
PushRom(acc, rom) ==
    LET roms == Append(acc.state.index.roms, rom)
    IN  [acc EXCEPT !.state.index.roms = roms,
                    !.rom_indices = Append(@, Len(roms) - 1)]

\* CollectionEntry that takes a directory inside a collection for a rom.
CollectionEntry_IndexesDirectories(acc, e, root, c, art) ==
    IF acc.media # "uncreatable" /\ e.kind = "dir"
    THEN PushRom([acc EXCEPT !.media = "present"],
                 Rom(e.stem, BoxartPath(root, c, e.stem), 0))
    ELSE IF acc.media = "uncreatable"
    THEN [acc EXCEPT !.err = Some(Err("ERROR_PREFIX_MEDIA_DIR",
                                      MediaFolder(root, c), "io"))]
    ELSE CASE e.kind = "enterr" -> [acc EXCEPT !.media = "present"]
           [] e.kind = "typeerr" ->
                [acc EXCEPT !.media = "present",
                            !.err = Some(Err("io::Error", NoPath, "file_type"))]
           [] e.kind = "nostem" ->
                [acc EXCEPT !.media = "present",
                            !.err = Some(Err("ERROR_PREFIX_FILE_STEM", NoPath, "entry"))]
           [] e.kind = "file" ->
                PushRom([acc EXCEPT !.media = "present",
                                    !.state.errors =
                                       @ \o BoxartErrors(
                                              IF acc.media = "present"
                                              THEN art[e.stem] ELSE ArtAbsent,
                                              BoxartPath(root, c, e.stem))],
                        Rom(e.stem, BoxartPath(root, c, e.stem),
                            BoxartSize(IF acc.media = "present"
                                       THEN art[e.stem] ELSE ArtAbsent)))

\* main.rs 163-230: one iteration of the loop over the collection's entries.
\* acc: the State being built, the .media directory's status, the
\* collection's rom_indices so far, and the error that ended the loop.
CollectionEntry(acc, e, root, c, art) ==
    LET media_folder == MediaFolder(root, c) IN
    IF acc.media = "uncreatable"
    THEN [acc EXCEPT !.err = Some(Err("ERROR_PREFIX_MEDIA_DIR", media_folder, "io"))]
    ELSE LET acc1 == [acc EXCEPT !.media = "present"] IN
         CASE e.kind = "enterr" -> acc1
           [] e.kind = "typeerr" ->
                [acc1 EXCEPT !.err = Some(Err("io::Error", NoPath, "file_type"))]
           [] e.kind = "dir" -> acc1
           [] e.kind = "nostem" ->
                [acc1 EXCEPT !.err = Some(Err("ERROR_PREFIX_FILE_STEM", NoPath, "entry"))]
           [] e.kind = "file" ->
                LET boxart_path == BoxartPath(root, c, e.stem)
                    a == IF acc.media = "present" THEN art[e.stem] ELSE ArtAbsent
                    rom == Rom(e.stem, boxart_path, BoxartSize(a))
                    acc2 == [acc1 EXCEPT !.state.errors =
                                            @ \o BoxartErrors(a, boxart_path)]
                IN  PushRom(acc2, rom)

RECURSIVE CollectionLoop(_, _, _, _, _, _)
CollectionLoop(acc, listing, i, root, c, art) ==
    IF i > Len(listing) \/ IsSome(acc.err)
    THEN acc
    ELSE CollectionLoop(CollectionEntry(acc, listing[i], root, c, art),
                        listing, i + 1, root, c, art)

\* main.rs 232-234, and the `?` that leave the loop: what the call returns
\* from what the loop left (acc).
CollectionResult(dir, c, acc) ==
    IF IsSome(acc.err)
    THEN [state |-> acc.state, dir |-> [dir EXCEPT !.media = acc.media],
          result |-> acc.err]
    ELSE [state |-> [acc.state EXCEPT !.index.collections =
                        Append(@, Collection(c, acc.rom_indices))],
          dir |-> [dir EXCEPT !.media = acc.media], result |-> None]

\* main.rs 141-235. dir is the collection directory's entry in the root
\* listing, c its name. Returns the State, the directory as the call leaves
\* it, and the Result (None for Ok(()), Some(e) for Err(e)).
index_collection_folder(state, dir, root, c) ==
    IF ~dir.readable
    THEN [state |-> state, dir |-> dir,
          result |-> Some(Err("ERROR_PREFIX_READ_COLLECTION",
                              CollectionPath(root, c), "io"))]
    ELSE CollectionResult(dir, c,
            CollectionLoop([state |-> state, media |-> dir.media,
                            rom_indices |-> <<>>, err |-> None],
                           Listing(dir), 1, root, c, dir.art))

\* main.rs 105-112: the error of index_collection_folder is pushed.
AfterCollection(r, i, root, res) ==
    [state |-> IF IsSome(res.result)
               THEN [res.state EXCEPT !.errors =
                       Append(@, Err("ERROR_PREFIX_INDEX_COLLECTION",
                                     CollectionPath(root, i),
                                     Unwrap(res.result).msg))]
               ELSE res.state,
     layout |-> [r.layout EXCEPT !.entries[i] = res.dir]]

\* main.rs 99-128: one entry of the root listing. r: the State and the root
\* layout so far.
RootEntryStep(r, i, root) ==
    CASE r.layout.entries[i].kind = "enterr" ->
            [r EXCEPT !.state.errors =
                        Append(@, Err("ERROR_PREFIX_DIR_ENTRY", NoPath, "io"))]
      [] r.layout.entries[i].kind = "typeerr" ->
            [r EXCEPT !.state.errors =
                        Append(@, Err("ERROR_PREFIX_DIR_TYPE",
                                      CollectionPath(root, i), "io"))]
      [] r.layout.entries[i].kind = "file" -> r
      [] r.layout.entries[i].kind = "dir" ->
            AfterCollection(r, i, root,
                index_collection_folder(r.state, r.layout.entries[i], root, i))

\* RootLoop that ends the scan at the first error recorded.
RECURSIVE RootLoop_StopsAtError(_, _, _)
RootLoop_StopsAtError(r, i, root) ==
    IF i > Len(r.layout.entries) \/ r.state.errors # <<>>
    THEN r
    ELSE RootLoop_StopsAtError(RootEntryStep(r, i, root), i + 1, root)

RECURSIVE RootLoop(_, _, _)
RootLoop(r, i, root) ==
    IF i > Len(r.layout.entries)
    THEN r
    ELSE RootLoop(RootEntryStep(r, i, root), i + 1, root)

\* main.rs 130-136
DropEmptyCollections(collections) ==
    SelectSeq(collections, LAMBDA x : x.rom_indices # <<>>)

\* ScanResult that reports the scan as failed when an entry failed.
ScanResult_FailsOnEntryError(r) ==
    [state |-> [r.state EXCEPT !.index.collections = DropEmptyCollections(@)],
     layout |-> r.layout,
     result |-> IF r.state.errors # <<>> THEN Some(r.state.errors[1]) ELSE None]

\* main.rs 130-138: the root was listed; r is what the loop left.
ScanResult(r) ==
    [state |-> [r.state EXCEPT !.index.collections = DropEmptyCollections(@)],
     layout |-> r.layout, result |-> None]

\* main.rs 89-139. layout is the directory at state.roms_folder. Returns the
\* State, the directory as the scan leaves it, and the Result.
index_roms(state, layout) ==
    IF ~layout.listable
    THEN [state |-> state, layout |-> layout,
          result |-> Some(Err("ERROR_PREFIX_DIR_READ",
                              RootPath(state.roms_folder), "io"))]
    ELSE ScanResult(RootLoop([state |-> state, layout |-> layout], 1,
                             state.roms_folder))

\* The indexer on its own: a scan of the directory p1 from a fresh State.
ScanRoot == "p1"

FreshState(path) == State(path, IndexDefault, <<>>)

ScanIdle == [phase |-> "idle", before |-> Unlistable,
             out |-> [state |-> FreshState(ScanRoot), layout |-> Unlistable,
                      result |-> None]]

\* ----------------------------------------------------------------- views

Setup(chosen_path, error) ==
    [kind |-> "Setup", chosen_path |-> chosen_path, error |-> error]

Loading(state, message) ==
    [kind |-> "Loading", state |-> state, message |-> message]

CollectionList(state) == [kind |-> "CollectionList", state |-> state]

RomList(state, title, selected_index, selected_image, rom_indices) ==
    [kind |-> "RomList", state |-> state, title |-> title,
     selected_index |-> selected_index, selected_image |-> selected_image,
     rom_indices |-> rom_indices]

FatalError(error_description) ==
    [kind |-> "FatalError", error_description |-> error_description]

ErrorList(state) == [kind |-> "ErrorList", state |-> state]

NextArtViewDefault == Setup(None, None)

\* The variants that carry a Collection State.
StateKinds == {"Loading", "CollectionList", "RomList", "ErrorList"}
HasState(self) == self.kind \in StateKinds

\* -------------------------------------------------------------- messages

NoOp == [type |-> "NoOp"]
OpenRomDirectoryPicker == [type |-> "OpenRomDirectoryPicker"]
OpenRomList(title, rom_indices) ==
    [type |-> "OpenRomList", title |-> title, rom_indices |-> rom_indices]
SelectRom(index) == [type |-> "SelectRom", index |-> index]
CompletedIndexing(state) == [type |-> "CompletedIndexing", state |-> state]
RomDirectoryChosen(folder) == [type |-> "RomDirectoryChosen", folder |-> folder]
OpenCollectionList == [type |-> "OpenCollectionList"]
OpenErrorList == [type |-> "OpenErrorList"]
SetupDone(folder) == [type |-> "SetupDone", folder |-> folder]
SetClipboardText(value) == [type |-> "SetClipboardText", value |-> value]
SetClipboardImage(path) == [type |-> "SetClipboardImage", path |-> path]
ReplacementImageFromClip(path, index) ==
    [type |-> "ReplacementImageFromClip", path |-> path, index |-> index]
ViewError(e) == [type |-> "ViewError", error |-> e]
RecordError(e) == [type |-> "RecordError", error |-> e]
SetRomInfoImage(image) == [type |-> "SetRomInfoImage", image |-> image]
WroteNewImage(index, size) == [type |-> "WroteNewImage", index |-> index, size |-> size]
ChooseReplacementImage(path, index) ==
    [type |-> "ChooseReplacementImage", path |-> path, index |-> index]
ResetState == [type |-> "ResetState"]

\* ------------------------------------------------------------------ tasks

\* Task::perform(async { String::from(..) }, Message::RecordError)
ErrorTask(e) == [op |-> "Error", error |-> e]
\* Task::perform of the clipboard-to-PNG future (main.rs 553-593)
ClipToImageTask(path, index) == [op |-> "ClipToImage", path |-> path, index |-> index]
\* main.rs 597-633
ImageToClipTask(path) == [op |-> "ImageToClip", path |-> path]
\* clipboard::write(value): it yields no message, whatever the value
ClipboardWriteTask(value) == [op |-> "ClipboardWrite"]
\* main.rs 697-721
PickFileTask(path, index) == [op |-> "PickFile", path |-> path, index |-> index]
\* main.rs 725-737
PickFolderTask == [op |-> "PickFolder"]
\* main.rs 772-825, holding its clone of the State
PersistAndScanTask(state) == [op |-> "PersistAndScan", state |-> state]
\* main.rs 911-950
load_image_task(image_path) == [op |-> "LoadImage", path |-> image_path]

\* What update leaves: self, the Task returned (<<>> is Task::none()), and
\* whether it panicked.
Ret(self, task) == [self |-> self, task |-> task, panic |-> FALSE]
Panic(self) == [self |-> self, task |-> <<>>, panic |-> TRUE]

\* ----------------------------------------------------------------- update

\* OnSetRomInfoImage that reports an image it has no RomList for.
OnSetRomInfoImage_ReportsStale(self, m) ==
    IF self.kind = "RomList"
    THEN Ret([self EXCEPT !.selected_image = Some(m.image)], <<>>)
    ELSE Ret(self, <<ErrorTask(ERROR_CANNOT_NAVIGATE)>>)

\* main.rs 520-524
OnSetRomInfoImage(self, m) ==
    IF self.kind = "RomList"
    THEN Ret([self EXCEPT !.selected_image = Some(m.image)], <<>>)
    ELSE Ret(self, <<>>)

\* OnOpenCollectionList that builds the target around a new State instead
\* of the one it took out of self.
OnOpenCollectionList_FreshState(self) ==
    IF self.kind \in {"RomList", "ErrorList"}
    THEN Ret(CollectionList(State(self.state.roms_folder, IndexDefault, <<>>)), <<>>)
    ELSE Ret(self, <<ErrorTask(ERROR_CANNOT_NAVIGATE)>>)

\* main.rs 526-537
OnOpenCollectionList(self) ==
    IF self.kind \in {"RomList", "ErrorList"}
    THEN Ret(CollectionList(self.state), <<>>)
    ELSE Ret(self, <<ErrorTask(ERROR_CANNOT_NAVIGATE)>>)

\* main.rs 539-550
OnOpenErrorList(self) ==
    IF self.kind \in {"RomList", "CollectionList"}
    THEN Ret(ErrorList(self.state), <<>>)
    ELSE Ret(self, <<ErrorTask(ERROR_CANNOT_NAVIGATE_COLLECTIONS)>>)

\* main.rs 552-594
OnReplacementImageFromClip(self, m) ==
    Ret(self, <<ClipToImageTask(m.path, m.index)>>)

\* main.rs 596-634
OnSetClipboardImage(self, m) == Ret(self, <<ImageToClipTask(m.path)>>)

\* OnWroteNewImage that records the size on the rom now selected, and not on
\* the rom the message names.
OnWroteNewImage_SelectedRom(self, m) ==
    IF self.kind = "RomList"
    THEN IF ~InRange(self.state.index.roms, m.index)
         THEN Panic(self)
         ELSE Ret([self EXCEPT
                     !.state.index.roms[IF IsSome(self.selected_index)
                                        THEN Unwrap(self.selected_index) + 1
                                        ELSE m.index + 1].boxart_size = m.size,
                     !.selected_image = None],
                  <<load_image_task(At(self.state.index.roms, m.index).boxart_path)>>)
    ELSE Ret(self, <<>>)

\* OnWroteNewImage that keeps the preview it had.
OnWroteNewImage_KeepsPreview(self, m) ==
    IF self.kind = "RomList"
    THEN IF ~InRange(self.state.index.roms, m.index)
         THEN Panic(self)
         ELSE Ret([self EXCEPT
                     !.state.index.roms[m.index + 1].boxart_size = m.size],
                  <<load_image_task(At(self.state.index.roms, m.index).boxart_path)>>)
    ELSE Ret(self, <<>>)

\* main.rs 636-648
OnWroteNewImage(self, m) ==
    IF self.kind = "RomList"
    THEN IF ~InRange(self.state.index.roms, m.index)
         THEN Panic(self)
         ELSE Ret([self EXCEPT
                     !.state.index.roms[m.index + 1].boxart_size = m.size,
                     !.selected_image = None],
                  <<load_image_task(At(self.state.index.roms, m.index).boxart_path)>>)
    ELSE Ret(self, <<>>)

\* OnResetState that clears the error of a Setup and keeps its path.
OnResetState_KeepsPath(self) ==
    IF self.kind = "Setup"
    THEN Ret([self EXCEPT !.error = None], <<>>)
    ELSE Ret(Setup(None, None), <<>>)

\* main.rs 650-655
OnResetState(self) == Ret(Setup(None, None), <<>>)

\* OnOpenRomList that leaves the default view the mem::replace put in, and
\* not the view it took out.
OnOpenRomList_NotRestored(self, m) ==
    IF self.kind \in {"CollectionList", "ErrorList"}
    THEN Ret(RomList(self.state, m.title, None, None, m.rom_indices), <<>>)
    ELSE Ret(Setup(None, None), <<ErrorTask(ERROR_CANNOT_NAVIGATE)>>)

\* main.rs 657-676 (the error text is the literal of ERROR_CANNOT_NAVIGATE)
OnOpenRomList(self, m) ==
    IF self.kind \in {"CollectionList", "ErrorList"}
    THEN Ret(RomList(self.state, m.title, None, None, m.rom_indices), <<>>)
    ELSE Ret(self, <<ErrorTask(ERROR_CANNOT_NAVIGATE)>>)

\* OnRecordError that puts the new error in front of the recorded ones.
OnRecordError_Prepends(self, m) ==
    IF self.kind \in {"RomList", "Loading", "CollectionList"}
    THEN Ret([self EXCEPT !.state.errors = <<m.error>> \o @], <<>>)
    ELSE Ret(self, <<>>)

\* OnRecordError that shows the error as fatal where there is no State to
\* push it to.
OnRecordError_FatalWithoutState(self, m) ==
    IF self.kind \in {"RomList", "Loading", "CollectionList"}
    THEN Ret([self EXCEPT !.state.errors = Append(@, m.error)], <<>>)
    ELSE IF self.kind = "ErrorList" THEN Ret(self, <<>>)
    ELSE Ret(FatalError(m.error), <<>>)

\* main.rs 678-686
OnRecordError(self, m) ==
    IF self.kind \in {"RomList", "Loading", "CollectionList"}
    THEN Ret([self EXCEPT !.state.errors = Append(@, m.error)], <<>>)
    ELSE Ret(self, <<>>)

\* OnViewError that keeps a Setup and shows the error in it.
OnViewError_ShownInSetup(self, m) ==
    IF self.kind = "Setup"
    THEN Ret([self EXCEPT !.error = Some(m.error)], <<>>)
    ELSE Ret(FatalError(m.error), <<>>)

\* main.rs 688-690
OnViewError(self, m) == Ret(FatalError(m.error), <<>>)

\* main.rs 692-694
OnSetClipboardText(self, m) == Ret(self, <<ClipboardWriteTask(m.value)>>)

\* main.rs 696-722
OnChooseReplacementImage(self, m) == Ret(self, <<PickFileTask(m.path, m.index)>>)

\* main.rs 724-738
OnOpenRomDirectoryPicker(self) == Ret(self, <<PickFolderTask>>)

\* OnRomDirectoryChosen that takes the folder for the roms_folder of the
\* State when the view holds one.
OnRomDirectoryChosen_RetargetsState(self, m) ==
    IF self.kind = "Setup"
    THEN Ret([self EXCEPT !.chosen_path = Some(m.folder)], <<>>)
    ELSE IF HasState(self)
    THEN Ret([self EXCEPT !.state.roms_folder = m.folder], <<>>)
    ELSE Ret(self, <<>>)

\* OnRomDirectoryChosen that does not look at the variant it is in.
OnRomDirectoryChosen_AnyVariant(self, m) == Ret(Setup(Some(m.folder), None), <<>>)

\* main.rs 740-744
OnRomDirectoryChosen(self, m) ==
    IF self.kind = "Setup"
    THEN Ret([self EXCEPT !.chosen_path = Some(m.folder)], <<>>)
    ELSE Ret(self, <<>>)

\* OnSelectRom that loads the box art whatever boxart_size says.
OnSelectRom_AlwaysLoads(self, m) ==
    IF self.kind = "RomList"
    THEN IF ~InRange(self.state.index.roms, m.index)
         THEN Panic([self EXCEPT !.selected_index = Some(m.index)])
         ELSE Ret([self EXCEPT !.selected_index = Some(m.index)],
                  <<load_image_task(At(self.state.index.roms, m.index).boxart_path)>>)
    ELSE Ret(self, <<>>)

\* main.rs 746-759
OnSelectRom(self, m) ==
    IF self.kind = "RomList"
    THEN LET self1 == [self EXCEPT !.selected_index = Some(m.index)] IN
         IF ~InRange(self.state.index.roms, m.index)
         THEN Panic(self1)
         ELSE IF At(self.state.index.roms, m.index).boxart_size # 0
              THEN Ret(self1,
                       <<load_image_task(At(self.state.index.roms, m.index).boxart_path)>>)
              ELSE Ret(self1, <<>>)
    ELSE Ret(self, <<>>)

\* OnSetupDone whose task builds its State from the default path, not from
\* a clone of the State of the Loading view.
OnSetupDone_TaskOwnState(self, m) ==
    LET state == State(m.folder, IndexDefault, <<>>)
    IN  Ret(Loading(state, "UI_SETUP_INDEXING"),
            <<PersistAndScanTask(State(ScanRoot, IndexDefault, <<>>))>>)

\* main.rs 761-827
OnSetupDone(self, m) ==
    LET state == State(m.folder, IndexDefault, <<>>)
    IN  Ret(Loading(state, "UI_SETUP_INDEXING"), <<PersistAndScanTask(state)>>)

\* OnCompletedIndexing that takes a scan result with errors for fatal.
OnCompletedIndexing_FatalOnErrors(self, m) ==
    IF m.state.errors # <<>>
    THEN Ret(FatalError(m.state.errors[1]), <<>>)
    ELSE Ret(CollectionList(m.state), <<>>)

\* main.rs 829-831
OnCompletedIndexing(self, m) == Ret(CollectionList(m.state), <<>>)

\* main.rs 516-835
update(self, m) ==
    CASE m.type = "NoOp" -> Ret(self, <<>>)
      [] m.type = "SetRomInfoImage" -> OnSetRomInfoImage(self, m)
      [] m.type = "OpenCollectionList" -> OnOpenCollectionList(self)
      [] m.type = "OpenErrorList" -> OnOpenErrorList(self)
      [] m.type = "ReplacementImageFromClip" -> OnReplacementImageFromClip(self, m)
      [] m.type = "SetClipboardImage" -> OnSetClipboardImage(self, m)
      [] m.type = "WroteNewImage" -> OnWroteNewImage(self, m)
      [] m.type = "ResetState" -> OnResetState(self)
      [] m.type = "OpenRomList" -> OnOpenRomList(self, m)
      [] m.type = "RecordError" -> OnRecordError(self, m)
      [] m.type = "ViewError" -> OnViewError(self, m)
      [] m.type = "SetClipboardText" -> OnSetClipboardText(self, m)
      [] m.type = "ChooseReplacementImage" -> OnChooseReplacementImage(self, m)
      [] m.type = "OpenRomDirectoryPicker" -> OnOpenRomDirectoryPicker(self)
      [] m.type = "RomDirectoryChosen" -> OnRomDirectoryChosen(self, m)
      [] m.type = "SelectRom" -> OnSelectRom(self, m)
      [] m.type = "SetupDone" -> OnSetupDone(self, m)
      [] m.type = "CompletedIndexing" -> OnCompletedIndexing(self, m)

\* ------------------------------------------------------------------- view

\* The Done button that confirms without looking at chosen_path.
DonePress_Unchecked(chosen_path) ==
    IF IsSome(chosen_path)
    THEN SetupDone(Unwrap(chosen_path))
    ELSE SetupDone(ScanRoot)

\* main.rs 299-305: the message of Setup's Done button
DonePress(chosen_path) ==
    IF IsSome(chosen_path)
    THEN SetupDone(Unwrap(chosen_path))
    ELSE ViewError(ERROR_NO_PATH)

\* rom_info_column whose buttons name the rom after the one shown.
rom_info_column_NextIndex(rom, rom_index) ==
    {SetClipboardText(rom.boxart_path),
     ChooseReplacementImage(rom.boxart_path, rom_index + 1),
     ReplacementImageFromClip(rom.boxart_path, rom_index + 1)}
    \cup (IF rom.boxart_size = 0 THEN {} ELSE {SetClipboardImage(rom.boxart_path)})

\* main.rs 837-909: the buttons of the selected rom's column
rom_info_column(rom, rom_index) ==
    {SetClipboardText(rom.boxart_path),
     ChooseReplacementImage(rom.boxart_path, rom_index),
     ReplacementImageFromClip(rom.boxart_path, rom_index)}
    \cup (IF rom.boxart_size = 0 THEN {} ELSE {SetClipboardImage(rom.boxart_path)})

\* main.rs 449-456: view panics on a selected_index outside roms
ViewPanics(self) ==
    /\ self.kind = "RomList"
    /\ IsSome(self.selected_index)
    /\ ~InRange(self.state.index.roms, Unwrap(self.selected_index))

\* main.rs 276-514: the messages the widgets of the rendered view can send
Emitted(self) ==
    CASE self.kind = "Setup" ->
            {OpenRomDirectoryPicker, DonePress(self.chosen_path)}
      [] self.kind = "Loading" -> {}
      [] self.kind = "CollectionList" ->
            {OpenRomList(self.state.index.collections[k].name,
                         self.state.index.collections[k].rom_indices) :
                k \in 1..Len(self.state.index.collections)}
            \cup (IF Len(self.state.errors) # 0 THEN {OpenErrorList} ELSE {})
      [] self.kind = "RomList" ->
            {OpenCollectionList}
            \cup {SelectRom(self.rom_indices[j]) :
                    j \in {k \in 1..Len(self.rom_indices) :
                             InRange(self.state.index.roms, self.rom_indices[k])}}
            \cup (IF IsSome(self.selected_index) /\ ~ViewPanics(self)
                  THEN rom_info_column(
                         At(self.state.index.roms, Unwrap(self.selected_index)),
                         Unwrap(self.selected_index))
                  ELSE {})
      [] self.kind = "ErrorList" ->
            {OpenCollectionList}
            \cup {SetClipboardText(self.state.errors[k]) :
                    k \in 1..Len(self.state.errors)}
      [] self.kind = "FatalError" ->
            {ResetState, SetClipboardText(self.error_description)}

\* ------------------------------------------------------------------- main

\* cfg: "nohome" (ProjectDirs::from gives None), "absent" (no config.json),
\* "unreadable", "corrupt" (config.json does not parse), or the roms_path
\* of a config.json that parses.
CfgStates == {"nohome", "absent", "unreadable", "corrupt"} \cup Paths

\* InitialView that takes a config it cannot parse for fatal.
InitialView_CorruptIsFatal(c) ==
    CASE c = "nohome" -> Setup(None, Some(ERROR_NO_HOME_DIRECTORY))
      [] c = "absent" -> Setup(None, None)
      [] c = "unreadable" ->
            Setup(None, Some(Err("ERROR_PREFIX_CONFIG_FILE_READ", NoPath, "io")))
      [] c = "corrupt" ->
            FatalError(Err("ERROR_PREFIX_CONFIG_FILE_READ", NoPath, "serde"))
      [] OTHER -> Setup(Some(c), None)

\* main.rs 957-1010
InitialView(c) ==
    CASE c = "nohome" -> Setup(None, Some(ERROR_NO_HOME_DIRECTORY))
      [] c = "absent" -> Setup(None, None)
      [] c = "unreadable" ->
            Setup(None, Some(Err("ERROR_PREFIX_CONFIG_FILE_READ", NoPath, "io")))
      [] c = "corrupt" ->
            Setup(None, Some(Err("ERROR_PREFIX_CONFIG_FILE_READ", NoPath, "serde")))
      [] OTHER -> Setup(Some(c), None)

\* ------------------------------------------------------- the tasks' runs

\* The box-art file at a path of the disk d.
HasMedia(d, path) ==
    /\ path.root \in Paths
    /\ d[path.root].listable
    /\ path.coll \in 1..Len(d[path.root].entries)
    /\ d[path.root].entries[path.coll].kind = "dir"
    /\ d[path.root].entries[path.coll].media = "present"
    /\ path.stem \in Stems

ArtAt(d, path) ==
    IF HasMedia(d, path) THEN d[path.root].entries[path.coll].art[path.stem]
    ELSE ArtAbsent

WriteArt(d, path, len) ==
    [d EXCEPT ![path.root].entries[path.coll].art[path.stem] = Art("file", len)]

\* The byte lengths a written PNG or a copied file can have.
ClipSizes == {2}
CopySizes == {2}

\* A decoded image: the file it was read from and that file's content
\* (told apart by its length).
Handle(path, len) == [path |-> path, len |-> len]

\* What a task's run leaves: the message its continuation builds (None for
\* a task that yields no message), the disk and the config.
Outcome(msg, d, c) == [msg |-> msg, disk |-> d, cfg |-> c]

\* main.rs 553-593. A failure before the file is written (of which the
\* first is the clipboard that cannot be opened), the file written and its
\* metadata unreadable, or success.
ClipToImageRun(t, d, c) ==
    {Outcome(Some(RecordError(Err("ERROR_PREFIX_ACCESS_CLIPBOARD", NoPath, "arboard"))), d, c)}
    \cup (IF HasMedia(d, t.path)
          THEN UNION {{Outcome(Some(WroteNewImage(t.index, n)), WriteArt(d, t.path, n), c),
                       Outcome(Some(RecordError(Err("ERROR_PREFIX_GET_METADATA_SAVED",
                                                    t.path, "io"))),
                               WriteArt(d, t.path, n), c)} : n \in ClipSizes}
          ELSE {})

\* main.rs 597-633: the image is put on the clipboard, or a step fails (the
\* file that cannot be opened or decoded, the clipboard that cannot be
\* opened or written).
ImageToClipRun(t, d, c) ==
    {Outcome(Some(RecordError(Err("ERROR_PREFIX_ACCESS_CLIPBOARD", NoPath, "arboard"))), d, c)}
    \cup (IF ArtAt(d, t.path).st = "file" /\ ArtAt(d, t.path).len # 0
          THEN {Outcome(Some(NoOp), d, c)}
          ELSE {Outcome(Some(RecordError(Err("ERROR_PREFIX_OPEN_IMAGE", t.path, "io"))),
                        d, c)})

\* main.rs 713-715, 719: the message of a file dialog that returned no path
PickFileCancelled == RecordError(ERROR_NO_FILE_SELECTED)

\* main.rs 733-735: the message of a folder dialog that returned no path
PickFolderCancelled == NoOp

\* main.rs 697-721: no file picked, the copy fails, or it writes n bytes.
PickFileRun(t, d, c) ==
    {Outcome(Some(PickFileCancelled), d, c),
     Outcome(Some(RecordError(Err("ERROR_PREFIX_COPY_FILE", t.path, "io"))), d, c)}
    \cup (IF HasMedia(d, t.path)
          THEN {Outcome(Some(WroteNewImage(t.index, n)), WriteArt(d, t.path, n), c) :
                   n \in CopySizes}
          ELSE {})

\* main.rs 725-737
PickFolderRun(t, d, c) ==
    {Outcome(Some(PickFolderCancelled), d, c)}
    \cup {Outcome(Some(RomDirectoryChosen(p)), d, c) : p \in Paths}

\* main.rs 911-950: the file cannot be opened, cannot be decoded, or is
\* decoded. A file of no bytes never decodes.
LoadImageRun(t, d, c) ==
    LET a == ArtAt(d, t.path) IN
    IF a.st = "absent"
    THEN {Outcome(Some(RecordError(Err("ERROR_PREFIX_OPEN_IMAGE_FILE", t.path, "io"))), d, c)}
    ELSE {Outcome(Some(RecordError(Err("ERROR_PREFIX_DECODE_IMAGE", t.path, "image"))), d, c)}
         \cup (IF a.st = "file" /\ a.len # 0
               THEN {Outcome(Some(SetRomInfoImage(Handle(t.path, a.len))), d, c)}
               ELSE {})

\* main.rs 774-815: the config is persisted, or the failure is pushed.
PersistConfig(state, c) ==
    IF c = "nohome"
    THEN {[state |-> [state EXCEPT !.errors = Append(@, ERROR_NO_HOME_DIRECTORY)],
           cfg |-> c]}
    ELSE {[state |-> [state EXCEPT !.errors =
                        Append(@, Err("ERROR_PREFIX_CONFIG_DIR_CREATE", NoPath, "io"))],
           cfg |-> c],
          [state |-> [state EXCEPT !.errors =
                        Append(@, Err("ERROR_PREFIX_CONFIG_FILE_CREATE", NoPath, "io"))],
           cfg |-> c],
          [state |-> state, cfg |-> state.roms_folder]}

\* main.rs 818-822: the error of index_roms is pushed; r is what index_roms
\* returned for the directory folder of the disk d.
AfterScan(d, folder, r) ==
    [state |-> IF IsSome(r.result)
               THEN [r.state EXCEPT !.errors = Append(@, Unwrap(r.result))]
               ELSE r.state,
     disk |-> [d EXCEPT ![folder] = r.layout]]

\* ScanAfterPersist that gives the scan up when persisting the config failed.
ScanAfterPersist_SkippedOnError(state, d) ==
    IF state.errors # <<>>
    THEN [state |-> state, disk |-> d]
    ELSE AfterScan(d, state.roms_folder, index_roms(state, d[state.roms_folder]))

\* main.rs 817-822
ScanAfterPersist(state, d) ==
    AfterScan(d, state.roms_folder, index_roms(state, d[state.roms_folder]))

ScanOutcome(s, c) == Outcome(Some(CompletedIndexing(s.state)), s.disk, c)

\* main.rs 772-825
PersistAndScanRun(t, d, c) ==
    {ScanOutcome(ScanAfterPersist(p.state, d), p.cfg) :
        p \in PersistConfig(t.state, c)}

\* The run of a scheduled task and the message it delivers.
Run(t, d, c) ==
    CASE t.op = "Error" -> {Outcome(Some(RecordError(t.error)), d, c)}
      [] t.op = "ClipToImage" -> ClipToImageRun(t, d, c)
      [] t.op = "ImageToClip" -> ImageToClipRun(t, d, c)
      [] t.op = "ClipboardWrite" -> {Outcome(None, d, c)}
      [] t.op = "PickFile" -> PickFileRun(t, d, c)
      [] t.op = "PickFolder" -> PickFolderRun(t, d, c)
      [] t.op = "LoadImage" -> LoadImageRun(t, d, c)
      [] t.op = "PersistAndScan" -> PersistAndScanRun(t, d, c)

\* ------------------------------------------------------- the event loop

\* The directories of the sessions checked: p1 holds a collection of two
\* roms (one with box art) and an empty collection; p2 cannot be listed.
LayoutA ==
    Layout(TRUE,
           <<RootEntry("dir", TRUE, "present",
                       <<FileEntry("file", 1), FileEntry("file", 2)>>,
                       [s \in Stems |-> IF s = 1 THEN Art("file", 3) ELSE ArtAbsent]),
             RootEntry("dir", TRUE, "absent", <<>>, NoArt)>>)

MainDisk == [p \in Paths |-> IF p = "p1" THEN LayoutA ELSE Unlistable]

\* The sessions start without a config.json, with or without a home
\* directory.
StartCfgs == {"absent", "nohome"}

Init ==
    /\ cfg \in StartCfgs
    /\ view = InitialView(cfg)
    /\ tasks = EmptyBag
    /\ disk = MainDisk
    /\ last = [message |-> [type |-> "Init"], task |-> <<>>]
    /\ panicked = FALSE
    /\ scan = ScanIdle

TaskBag(task) == IF task = <<>> THEN EmptyBag ELSE SetToBag({task[1]})

\* The model's bounds: errors and the pending tasks do not grow past them.
WithinBounds(self, tk) ==
    /\ self.kind \in StateKinds => Len(self.state.errors) <= MaxErrors
    /\ BagCardinality(tk) <= MaxTasks

\* The runtime spawns the Task update returned (r: what update left for the
\* message m; tk: the tasks that stay pending; d, c: the disk and config).
Commit(m, r, tk, d, c) ==
    /\ WithinBounds(r.self, tk (+) TaskBag(r.task))
    /\ view' = r.self
    /\ tasks' = tk (+) TaskBag(r.task)
    /\ disk' = d
    /\ cfg' = c
    /\ last' = [message |-> m, task |-> r.task]
    /\ panicked' = r.panic
    /\ UNCHANGED scan

\* The runtime hands message m to update.
Deliver(m) ==
    /\ ~panicked
    /\ Commit(m, update(view, m), tasks, disk, cfg)

\* A task that yields no message ends.
Finish(tk, d, c) == Commit([type |-> "None"], Ret(view, <<>>), tk, d, c)

\* A pending task runs to its end and the runtime hands its message to
\* update. Pending tasks complete in any order. (The run and the delivery
\* are one step: update reads nothing a run writes, and a run reads nothing
\* update writes.)
Complete ==
    /\ ~panicked
    /\ \E t \in BagToSet(tasks) : \E o \in Run(t, disk, cfg) :
          IF IsSome(o.msg)
          THEN Commit(Unwrap(o.msg), update(view, Unwrap(o.msg)),
                      tasks (-) SetToBag({t}), o.disk, o.cfg)
          ELSE Finish(tasks (-) SetToBag({t}), o.disk, o.cfg)

\* The user presses a widget of the rendered view.
Press == \E m \in Emitted(view) : Deliver(m)

\* The sessions the rendered views and the scheduled tasks drive.
NextUI == Press \/ Complete

SpecUI == Init /\ [][NextUI]_vars

\* ------------------------------------------- update, message by message

\* update as a function of self and the message: any message is handed to
\* any view a session can hold, and the task it schedules then completes.

\* The States a scan task returns (main.rs 772-825).
ScannedStates(d) ==
    UNION {{ScanAfterPersist(ps.state, d).state :
              ps \in PersistConfig(FreshState(p), c)} :
           p \in Paths, c \in StartCfgs}

\* The errors a RecordError pushed since (main.rs 678-686).
RecordedErrors == {ERROR_CANNOT_NAVIGATE, ERROR_NO_FILE_SELECTED}

Errored(s) ==
    {[s EXCEPT !.errors = @ \o es] :
        es \in SeqsUpTo(RecordedErrors, MaxErrors - Len(s.errors))}

\* The sizes a WroteNewImage set since (main.rs 643).
Resized(s) ==
    {[s EXCEPT !.index.roms =
               [k \in 1..Len(s.index.roms) |->
                  IF k \in W THEN [s.index.roms[k] EXCEPT !.boxart_size = n]
                  ELSE s.index.roms[k]]] :
        W \in SUBSET (1..Len(s.index.roms)), n \in CopySizes}

HeldStates(d) ==
    UNION {UNION {Errored(r) : r \in Resized(s)} : s \in ScannedStates(d)}

\* The title and rom_indices an OpenRomList carries: a collection's, or
\* those of a collection the index does not hold.
RomListTargets(s) ==
    {OpenRomList(1, <<0>>)}
    \cup {OpenRomList(s.index.collections[k].name,
                      s.index.collections[k].rom_indices) :
            k \in 1..Len(s.index.collections)}

PreviewsOf(s) ==
    {None} \cup {Some(Handle(s.index.roms[k].boxart_path, 3)) :
                    k \in 1..Len(s.index.roms)}

SelectionsOf(s) == {None} \cup {Some(i) : i \in 0..(Len(s.index.roms) - 1)}

ViewsOver(held) ==
    {Setup(cp, er) : cp \in {None} \cup {Some(p) : p \in Paths},
                     er \in {None, Some(ERROR_NO_HOME_DIRECTORY)}}
    \cup {FatalError(ERROR_NO_PATH)}
    \cup UNION {{Loading(s, "UI_SETUP_INDEXING") : s \in Errored(FreshState(p))} :
                p \in Paths}
    \cup {CollectionList(s) : s \in held}
    \cup {ErrorList(s) : s \in held}
    \cup UNION {{RomList(s, t.title, si, img, t.rom_indices) :
                    t \in RomListTargets(s), si \in SelectionsOf(s),
                    img \in PreviewsOf(s)} : s \in held}

\* The views a session over the disk d can hold.
Views(d) == ViewsOver(HeldStates(d))

RomsOf(self) == IF self.kind \in StateKinds THEN self.state.index.roms ELSE <<>>

KnownPaths(self) == {RomsOf(self)[k].boxart_path : k \in 1..Len(RomsOf(self))}

\* The values a Message can carry (an index one past the last rom included).
Messages(self, d) ==
    {NoOp, OpenRomDirectoryPicker, OpenCollectionList, OpenErrorList, ResetState,
     ViewError(ERROR_NO_PATH), SetClipboardText(ERROR_NO_PATH)}
    \cup {RecordError(e) : e \in RecordedErrors}
    \cup (IF self.kind \in StateKinds THEN RomListTargets(self.state)
          ELSE {OpenRomList(1, <<0>>)})
    \cup {SelectRom(i) : i \in 0..MaxStems}
    \cup {WroteNewImage(i, n) : i \in 0..MaxStems, n \in CopySizes}
    \cup {RomDirectoryChosen(p) : p \in Paths}
    \cup {SetupDone(p) : p \in Paths}
    \cup {CompletedIndexing(st) : st \in ScannedStates(d)}
    \cup UNION {{SetClipboardImage(q), SetRomInfoImage(Handle(q, 3)),
                 ReplacementImageFromClip(q, q.stem - 1),
                 ChooseReplacementImage(q, q.stem - 1)} : q \in KnownPaths(self)}

UpdateInit ==
    /\ disk = MainDisk
    /\ view \in Views(disk)
    /\ cfg \in StartCfgs
    /\ tasks = EmptyBag
    /\ last = [message |-> [type |-> "Init"], task |-> <<>>]
    /\ panicked = FALSE
    /\ scan = ScanIdle

Inject ==
    /\ last.message.type = "Init"
    /\ \E m \in Messages(view, disk) : Deliver(m)

Next == Inject \/ Complete

Spec == UpdateInit /\ [][Next]_vars

\* ------------------------------------------------- the indexer, on its own

\* A scan of any directory layout from a fresh State, as the task of
\* SetupDone runs it (main.rs 818).
ScanInit ==
    /\ scan \in {[phase |-> "start", before |-> l,
                  out |-> [state |-> FreshState(ScanRoot), layout |-> l,
                           result |-> None]] : l \in Layouts}
    /\ view = Loading(FreshState(ScanRoot), "UI_SETUP_INDEXING")
    /\ tasks = EmptyBag
    /\ disk = [p \in Paths |-> Unlistable]
    /\ cfg = "absent"
    /\ last = [message |-> [type |-> "Init"], task |-> <<>>]
    /\ panicked = FALSE

RunScan ==
    /\ scan.phase = "start"
    /\ scan' = [scan EXCEPT !.phase = "scanned",
                            !.out = index_roms(FreshState(ScanRoot), scan.before)]
    /\ UNCHANGED <<view, tasks, disk, cfg, last, panicked>>

ScanNext == RunScan

SpecScan == ScanInit /\ [][ScanNext]_vars

\* ------------------------------------------------- the setup phase alone

\* main.rs 953-1013: a session starts in the view main builds from the
\* config it finds, whichever that is.
SetupInit ==
    /\ cfg \in CfgStates
    /\ view = InitialView(cfg)
    /\ tasks = EmptyBag
    /\ disk = MainDisk
    /\ last = [message |-> [type |-> "Init"], task |-> <<>>]
    /\ panicked = FALSE
    /\ scan = ScanIdle

\* The sessions up to the view the scan result is installed in.
SetupPress == view.kind \in {"Setup", "FatalError"} /\ Press

SetupComplete == view.kind \in {"Setup", "FatalError", "Loading"} /\ Complete

SetupNext == SetupPress \/ SetupComplete

SpecSetup == SetupInit /\ [][SetupNext]_vars

\* The folders of the sessions checked for progress: p1 holds one collection
\* of one rom and no .media yet; p2 cannot be listed.
LayoutB ==
    Layout(TRUE, <<RootEntry("dir", TRUE, "absent", <<FileEntry("file", 1)>>, NoArt)>>)

ProgressDisk == [p \in Paths |-> IF p = "p1" THEN LayoutB ELSE Unlistable]

SetupFairInit ==
    /\ cfg \in CfgStates
    /\ view = InitialView(cfg)
    /\ tasks = EmptyBag
    /\ disk = ProgressDisk
    /\ last = [message |-> [type |-> "Init"], task |-> <<>>]
    /\ panicked = FALSE
    /\ scan = ScanIdle

\* The runtime runs every spawned Task to its end and hands its Message to
\* update: a pending completion is not postponed for ever.
SpecSetupFair == SetupFairInit /\ [][SetupNext]_vars /\ WF_vars(SetupComplete)

\* ------------------------------------------- the indexer, run a second time

\* A second scan of the directory as the first scan left it, from a fresh
\* State again (main.rs 763-767, 818).
RunRescan ==
    /\ scan.phase = "scanned"
    /\ scan' = [phase |-> "rescanned", before |-> scan.before, out |-> scan.out,
                again |-> index_roms(FreshState(ScanRoot), scan.out.layout)]
    /\ UNCHANGED <<view, tasks, disk, cfg, last, panicked>>

RescanNext == RunScan \/ RunRescan

SpecRescan == ScanInit /\ [][RescanNext]_vars

\* ------------------------------------------------------------------ claims

\* The step left the view as it was, did not panic, and scheduled the one
\* task that delivers RecordError(e) and nothing else.
RejectedWith(e) ==
    /\ view' = view
    /\ ~panicked'
    /\ last'.task = <<ErrorTask(e)>>
    /\ tasks' = tasks (+) SetToBag({ErrorTask(e)})
    /\ Run(ErrorTask(e), disk', cfg') = {Outcome(Some(RecordError(e)), disk', cfg')}

\* C1: a navigation event (OpenCollectionList, OpenErrorList, OpenRomList)
\* received in a view that is not an accepted source of it does not panic,
\* leaves the view exactly as it was, and schedules exactly one RecordError
\* completion event.
C1_RejectedNavigation ==
    [][/\ (last'.message.type = "OpenCollectionList"
           /\ view.kind \notin {"RomList", "ErrorList"})
          => RejectedWith(ERROR_CANNOT_NAVIGATE)
       /\ (last'.message.type = "OpenErrorList"
           /\ view.kind \notin {"RomList", "CollectionList"})
          => RejectedWith(ERROR_CANNOT_NAVIGATE_COLLECTIONS)
       /\ (last'.message.type = "OpenRomList"
           /\ view.kind \notin {"CollectionList", "ErrorList"})
          => RejectedWith(ERROR_CANNOT_NAVIGATE)]_vars

\* OpenRomList was handed to a Setup with a chosen path: the Setup is as it
\* was and the one error task is pending.
C1_Witness ==
    /\ last.message.type = "OpenRomList"
    /\ view = Setup(Some("p2"), Some(ERROR_NO_HOME_DIRECTORY))
    /\ last.task = <<ErrorTask(ERROR_CANNOT_NAVIGATE)>>
    /\ tasks = SetToBag({ErrorTask(ERROR_CANNOT_NAVIGATE)})
    /\ ~panicked

\* C2: every successful navigation (OpenCollectionList from RomList or
\* ErrorList, OpenErrorList from RomList or CollectionList, OpenRomList from
\* CollectionList or ErrorList) yields the target variant carrying a State
\* whose roms_folder, index and errors are those of the source, and
\* schedules no task.
C2_NavigationCarriesState ==
    [][/\ (last'.message.type = "OpenCollectionList"
           /\ view.kind \in {"RomList", "ErrorList"})
          => (view' = CollectionList(view.state)
              /\ last'.task = <<>> /\ tasks' = tasks)
       /\ (last'.message.type = "OpenErrorList"
           /\ view.kind \in {"RomList", "CollectionList"})
          => (view' = ErrorList(view.state)
              /\ last'.task = <<>> /\ tasks' = tasks)
       /\ (last'.message.type = "OpenRomList"
           /\ view.kind \in {"CollectionList", "ErrorList"})
          => (view'.kind = "RomList"
              /\ view'.state.roms_folder = view.state.roms_folder
              /\ view'.state.index = view.state.index
              /\ view'.state.errors = view.state.errors
              /\ last'.task = <<>> /\ tasks' = tasks)]_vars

\* OpenCollectionList arrived and the CollectionList holds an index of two
\* roms and two recorded errors.
C2_Witness ==
    /\ last.message.type = "OpenCollectionList"
    /\ view.kind = "CollectionList"
    /\ Len(view.state.index.roms) = 2
    /\ Len(view.state.errors) = 2
    /\ last.task = <<>>
    /\ tasks = EmptyBag

\* C3: a RecordError(e) received in any variant that carries a State
\* (Loading, CollectionList, RomList, ErrorList) leaves the variant and
\* appends e as the last element of that State's errors.
C3_RecordErrorAppends ==
    [][(last'.message.type = "RecordError" /\ view.kind \in StateKinds)
          => view' = [view EXCEPT !.state.errors = Append(@, last'.message.error)]]_vars

\* C4: confirming Setup while chosen_path is None replaces the view with
\* FatalError whose error_description is the no-path-selected message.
C4_ConfirmWithoutPathIsFatal ==
    [][(view.kind = "Setup" /\ view.chosen_path = None
        /\ last'.message = DonePress(view.chosen_path) /\ last' # last)
          => view' = FatalError(ERROR_NO_PATH)]_vars

\* Done was pressed in a Setup without a path.
C4_Witness ==
    /\ last.message = ViewError(ERROR_NO_PATH)
    /\ view = FatalError(ERROR_NO_PATH)

\* C5, as stated: confirming Setup while chosen_path is None leaves the
\* machine in Setup (chosen_path still None) and records the no-path error
\* in it.
C5_ConfirmWithoutPathStaysInSetup ==
    [][(view.kind = "Setup" /\ view.chosen_path = None
        /\ last'.message = DonePress(view.chosen_path) /\ last' # last)
          => (view'.kind = "Setup" /\ view'.chosen_path = None
              /\ view'.error = Some(ERROR_NO_PATH))]_vars

\* C5, amended: confirming Setup while chosen_path is None does not leave
\* the machine in Setup: the Setup, with the error it showed, gives way to a
\* FatalError that holds the no-path message, nothing is scheduled and the
\* tasks pending stay pending.
C5_ConfirmWithoutPathLeavesSetup ==
    [][(view.kind = "Setup" /\ view.chosen_path = None
        /\ last'.message = DonePress(view.chosen_path) /\ last' # last)
          => (view'.kind = "FatalError"
              /\ view'.error_description = ERROR_NO_PATH
              /\ last'.task = <<>>
              /\ tasks' = tasks
              /\ ~panicked')]_vars

\* Done was pressed without a path while a folder picker was open: the
\* view is the FatalError and the picker is still pending.
C5_Witness ==
    /\ last.message = ViewError(ERROR_NO_PATH)
    /\ view.kind = "FatalError"
    /\ last.task = <<>>
    /\ tasks = SetToBag({PickFolderTask})

\* C6, as stated: a navigation event received when the view owns no State
\* replaces the view with FatalError.
C6_NavigationWithoutStateIsFatal ==
    [][(last'.message.type \in {"OpenCollectionList", "OpenErrorList", "OpenRomList"}
        /\ view.kind \notin StateKinds)
          => view'.kind = "FatalError"]_vars

\* C6, amended: a navigation event received when the view owns no State
\* (Setup, FatalError) does not replace the view, and the RecordError its
\* task delivers changes nothing either: a Setup stays that Setup, and
\* the error is recorded nowhere.
C6_NavigationWithoutStateIsDropped ==
    [][/\ (last'.message.type \in {"OpenCollectionList", "OpenErrorList", "OpenRomList"}
           /\ view.kind \notin StateKinds)
          => (view' = view /\ last'.task # <<>>)
       /\ (last'.message.type = "RecordError" /\ view.kind \notin StateKinds)
          => (view' = view /\ last'.task = <<>> /\ ~panicked')]_vars

\* OpenErrorList was handed to a Setup, and the RecordError that followed
\* has been handled: the Setup is still there.
C6_Witness ==
    /\ last.message = RecordError(ERROR_CANNOT_NAVIGATE_COLLECTIONS)
    /\ view.kind = "Setup"
    /\ tasks = EmptyBag

\* C7: in the behaviours the rendered views' events and the completions of
\* scheduled tasks drive, a FatalError stays that FatalError (same
\* error_description) until a ResetState, and the only view that follows it
\* is Setup with chosen_path None and error None.
C7_FatalUntilReset ==
    [][view.kind = "FatalError"
          => \/ view' = view
             \/ last'.message.type = "ResetState" /\ view' = Setup(None, None)]_vars

\* A folder picker opened in Setup completed after the view became
\* FatalError, and the view is still the FatalError.
C7_Witness ==
    /\ view = FatalError(ERROR_NO_PATH)
    /\ last.message.type = "RomDirectoryChosen"

\* C8: ResetState received in any variant yields Setup with chosen_path
\* None and error None, which holds no State, and schedules no task.
C8_ResetYieldsEmptySetup ==
    [][(last'.message.type = "ResetState" /\ last' # last)
          => (view' = Setup(None, None)
              /\ last'.task = <<>>
              /\ tasks' = tasks)]_vars

\* ResetState was handled and nothing was scheduled.
C8_Witness ==
    /\ last.message = ResetState
    /\ view = Setup(None, None)
    /\ last.task = <<>>
    /\ tasks = EmptyBag

\* C9: SetupDone(path) moves the machine to Loading with a fresh State
\* (roms_folder = path, empty index, no errors) and schedules exactly one
\* persist-then-scan task that holds its own copy of that State; when the
\* CompletedIndexing(s) of that task is processed the view becomes
\* CollectionList carrying exactly s.
C9_SetupDoneThenCompletedIndexing ==
    [][/\ (last'.message.type = "SetupDone" /\ last' # last)
          => (/\ view'.kind = "Loading"
              /\ view'.state = [roms_folder |-> last'.message.folder,
                                index |-> [roms |-> <<>>, collections |-> <<>>],
                                errors |-> <<>>]
              /\ last'.task = <<PersistAndScanTask(view'.state)>>
              /\ tasks' = tasks (+) SetToBag({PersistAndScanTask(view'.state)}))
       /\ (last'.message.type = "CompletedIndexing" /\ last' # last)
          => (/\ view' = CollectionList(last'.message.state)
              /\ last'.task = <<>>
              /\ (tasks # EmptyBag =>
                    \E t \in BagToSet(tasks) :
                       /\ t.op = "PersistAndScan"
                       /\ tasks' = tasks (-) SetToBag({t})
                       /\ last'.message.state.roms_folder = t.state.roms_folder))]_vars

\* The scan task of SetupDone("p1") completed: the CollectionList holds the
\* State the task returned, with the two roms of the one collection kept.
C9_Witness ==
    /\ last.message.type = "CompletedIndexing"
    /\ view = CollectionList(last.message.state)
    /\ view.state.roms_folder = "p1"
    /\ Len(view.state.index.roms) = 2
    /\ Len(view.state.index.collections) = 1
    /\ tasks = EmptyBag

\* C10: after any scan (every root layout, every pattern of per-entry
\* failures) every element of every Collection.rom_indices is a valid index
\* into Index.roms, and no Collection of the final Index has an empty
\* rom_indices.
ValidIndex(index) ==
    \A k \in 1..Len(index.collections) :
        LET col == index.collections[k] IN
        /\ col.rom_indices # <<>>
        /\ \A j \in 1..Len(col.rom_indices) : InRange(index.roms, col.rom_indices[j])

C10_IndicesValidNoEmpty ==
    scan.phase = "scanned" => ValidIndex(scan.out.state.index)

\* A scan that kept one collection and dropped an empty one, after a
\* collection that failed part-way (its rom stays in roms).
C10_Witness ==
    /\ scan.phase = "scanned"
    /\ Len(scan.before.entries) = 2
    /\ scan.before.entries[1].kind = "dir"
    /\ scan.before.entries[1].readable
    /\ scan.before.entries[1].entries = <<FileEntry("file", 1), FileEntry("typeerr", 0)>>
    /\ scan.before.entries[2].kind = "dir"
    /\ scan.before.entries[2].readable
    /\ scan.before.entries[2].entries = <<FileEntry("enterr", 0), FileEntry("file", 2)>>
    /\ Len(scan.out.state.index.roms) = 2
    /\ Len(scan.out.state.index.collections) = 1
    /\ scan.out.state.index.collections[1].rom_indices = <<1>>

\* The box-art file a scanned rom's boxart_path named when the scan began.
ArtBefore(rom) ==
    IF scan.before.entries[rom.boxart_path.coll].media = "present"
    THEN scan.before.entries[rom.boxart_path.coll].art[rom.boxart_path.stem]
    ELSE ArtAbsent

\* C11, as stated: for every rom a scan produces, boxart_size is 0 if and only if no
\* file exists at its boxart_path at scan time, and when the file exists
\* boxart_size is its byte length. (A path for which std::fs::exists itself
\* fails is left out: whether the file exists is not known.)
C11_SizeZeroIffNoFile ==
    scan.phase = "scanned" =>
        \A k \in 1..Len(scan.out.state.index.roms) :
            LET rom == scan.out.state.index.roms[k] IN
            ArtBefore(rom).st # "existserr" =>
                /\ rom.boxart_size = 0 <=> ArtBefore(rom).st = "absent"
                /\ ArtBefore(rom).st = "file" => rom.boxart_size = ArtBefore(rom).len

\* C11, amended: for every rom a scan produces, boxart_size is the byte
\* length of the file at its boxart_path when that file exists and its
\* metadata can be read, and 0 otherwise. So a size other than 0 means the
\* file exists with that length, and no file means size 0; but size 0 also
\* stands for an empty file and for a lookup that failed (std::fs::exists
\* or std::fs::metadata), and in the latter case an error naming the path
\* is pushed.
C11_SizeIsLengthOrZero ==
    scan.phase = "scanned" =>
        \A k \in 1..Len(scan.out.state.index.roms) :
            LET rom == scan.out.state.index.roms[k] IN
            /\ ArtBefore(rom).st = "absent" => rom.boxart_size = 0
            /\ ArtBefore(rom).st = "file" => rom.boxart_size = ArtBefore(rom).len
            /\ rom.boxart_size # 0 => ArtBefore(rom) = Art("file", rom.boxart_size)
            /\ ArtBefore(rom).st \in {"metaerr", "existserr"} =>
                 /\ rom.boxart_size = 0
                 /\ \E j \in 1..Len(scan.out.state.errors) :
                       /\ scan.out.state.errors[j].msg = "ERROR_PREFIX_GET_METADATA"
                       /\ scan.out.state.errors[j].path = rom.boxart_path

\* A scan of one collection with an empty box-art file and one whose
\* metadata cannot be read: both roms have size 0 and one error is pushed.
C11_Witness ==
    /\ scan.phase = "scanned"
    /\ Len(scan.out.state.index.roms) = 2
    /\ ArtBefore(scan.out.state.index.roms[1]) = Art("file", 0)
    /\ ArtBefore(scan.out.state.index.roms[2]) = Art("metaerr", 0)
    /\ scan.out.state.index.roms[1].boxart_size = 0
    /\ scan.out.state.index.roms[2].boxart_size = 0
    /\ Len(scan.out.state.errors) = 1

\* The positions of the regular files in a collection directory's listing.
FilePositions(dir) == {j \in 1..Len(dir.entries) : dir.entries[j].kind = "file"}

\* The collection directories a scan reads: position i of the root listing
\* is a directory that read_dir lists and whose .media exists or can be made.
Scannable(i) ==
    /\ scan.before.entries[i].kind = "dir"
    /\ scan.before.entries[i].readable
    /\ scan.before.entries[i].media # "uncreatable"

\* The final Index holds the collection of root entry i, with one Rom for
\* each regular file of the directory, in listing order.
HoldsAllFilesOf(i) ==
    \E k \in 1..Len(scan.out.state.index.collections) :
        LET col == scan.out.state.index.collections[k]
            files == SelectSeq(scan.before.entries[i].entries,
                               LAMBDA e : e.kind = "file")
        IN  /\ col.name = i
            /\ Len(col.rom_indices) = Len(files)
            /\ \A n \in 1..Len(files) :
                  /\ InRange(scan.out.state.index.roms, col.rom_indices[n])
                  /\ At(scan.out.state.index.roms, col.rom_indices[n]).boxart_path
                        = BoxartPath(ScanRoot, i, files[n].stem)

\* C12: a failure on one entry inside a collection directory (its file type
\* cannot be read, or it has no file stem) is recorded as an error and only
\* that entry is skipped: every other regular file of the directory still
\* becomes a Rom listed in that Collection's rom_indices.
C12_EntryFailureSkipsOnlyThatEntry ==
    scan.phase = "scanned" =>
        \A i \in 1..Len(scan.before.entries) :
            (/\ Scannable(i)
             /\ FilePositions(scan.before.entries[i]) # {}
             /\ \E j \in 1..Len(scan.before.entries[i].entries) :
                   scan.before.entries[i].entries[j].kind \in {"typeerr", "nostem"})
            => (HoldsAllFilesOf(i) /\ scan.out.state.errors # <<>>)

\* Root entry i is a collection directory the scan reads to its end: it is
\* listed, its .media exists or can be made, and no entry of it fails.
ReadToEnd(i) ==
    /\ Scannable(i)
    /\ \A j \in 1..Len(scan.before.entries[i].entries) :
          scan.before.entries[i].entries[j].kind \notin {"typeerr", "nostem"}

\* C13: when one collection subdirectory cannot be read, the scan still
\* processes all sibling directories, appends exactly one error string
\* that contains the failing directory's path, and the final Index holds
\* every sibling collection that was scanned successfully and has at least
\* one file.
C13_UnreadableCollectionIsSkipped ==
    scan.phase = "scanned" =>
        \A i \in 1..Len(scan.before.entries) :
            (scan.before.entries[i].kind = "dir" /\ ~scan.before.entries[i].readable)
            => /\ scan.out.result = None
               /\ Cardinality({j \in 1..Len(scan.out.state.errors) :
                     scan.out.state.errors[j].path = CollectionPath(ScanRoot, i)}) = 1
               /\ \A s \in 1..Len(scan.before.entries) :
                     (ReadToEnd(s) /\ FilePositions(scan.before.entries[s]) # {})
                     => HoldsAllFilesOf(s)

\* The first directory of the root cannot be read and the second holds two
\* files: one error, and the second directory's collection with both roms.
C13_Witness ==
    /\ scan.phase = "scanned"
    /\ Len(scan.before.entries) = 2
    /\ scan.before.entries[1].kind = "dir"
    /\ ~scan.before.entries[1].readable
    /\ ReadToEnd(2)
    /\ Len(scan.before.entries[2].entries) = 2
    /\ Cardinality(FilePositions(scan.before.entries[2])) = 2
    /\ Len(scan.out.state.errors) = 1
    /\ scan.out.state.errors[1].path = CollectionPath(ScanRoot, 1)
    /\ scan.out.state.index.collections = <<Collection(2, <<0, 1>>)>>

\* C14: index_roms returns a failure exactly when the root directory itself
\* cannot be listed, and then adds no rom and no collection to the Index
\* (and pushes nothing itself); every other failure during the scan leaves
\* the result successful and only appends to errors.
C14_FailsOnlyOnUnlistableRoot ==
    scan.phase = "scanned" =>
        /\ IsSome(scan.out.result) <=> ~scan.before.listable
        /\ ~scan.before.listable =>
              /\ scan.out.state = FreshState(ScanRoot)
              /\ Unwrap(scan.out.result).path = RootPath(ScanRoot)
        /\ scan.before.listable =>
              /\ scan.out.result = None
              /\ scan.out.state.roms_folder = ScanRoot

\* A scan in which one collection could not be read and another was cut
\* short because its .media could not be made: two errors, and still Ok.
C14_Witness ==
    /\ scan.phase = "scanned"
    /\ scan.before.listable
    /\ Len(scan.before.entries) = 2
    /\ scan.before.entries[1].kind = "dir"
    /\ ~scan.before.entries[1].readable
    /\ scan.before.entries[2].kind = "dir"
    /\ scan.before.entries[2].media = "uncreatable"
    /\ Len(scan.out.state.errors) = 2
    /\ scan.out.result = None

\* C15: after a scan, every collection directory directly under the root
\* that could be read has a .media subdirectory (made by the scan if it was
\* absent), collection directories without entries included. (Directories
\* in which .media cannot be made are left out.)
C15_EveryCollectionHasMedia ==
    scan.phase = "scanned" =>
        \A i \in 1..Len(scan.before.entries) :
            Scannable(i) => scan.out.layout.entries[i].media = "present"

\* C16: in RomList, after SelectRom(i) is processed for a rom i whose
\* boxart_size is 0, selected_image is None, whatever rom was selected and
\* previewed before.
C16_SelectWithoutArtClearsPreview ==
    [][(/\ view.kind = "RomList"
        /\ last'.message.type = "SelectRom"
        /\ InRange(view.state.index.roms, last'.message.index)
        /\ At(view.state.index.roms, last'.message.index).boxart_size = 0)
          => (view'.kind = "RomList" /\ view'.selected_image = None)]_vars

\* C17: when WroteNewImage(i, size) is processed while the view is RomList
\* (i an index of roms): roms[i].boxart_size becomes size, selected_image
\* becomes None, exactly one image-load task for roms[i].boxart_path is
\* scheduled, and selected_index, rom_indices, errors and every other rom
\* are unchanged.
C17_WroteNewImageInRomList ==
    [][(/\ view.kind = "RomList"
        /\ last'.message.type = "WroteNewImage"
        /\ InRange(view.state.index.roms, last'.message.index))
          => (/\ view'.kind = "RomList"
              /\ ~panicked'
              /\ Len(view'.state.index.roms) = Len(view.state.index.roms)
              /\ \A k \in 1..Len(view.state.index.roms) :
                    IF k = last'.message.index + 1
                    THEN view'.state.index.roms[k] =
                            [name |-> view.state.index.roms[k].name,
                             boxart_path |-> view.state.index.roms[k].boxart_path,
                             boxart_size |-> last'.message.size]
                    ELSE view'.state.index.roms[k] = view.state.index.roms[k]
              /\ view'.selected_image = None
              /\ view'.selected_index = view.selected_index
              /\ view'.rom_indices = view.rom_indices
              /\ view'.title = view.title
              /\ view'.state.errors = view.state.errors
              /\ view'.state.index.collections = view.state.index.collections
              /\ view'.state.roms_folder = view.state.roms_folder
              /\ last'.task = <<[op |-> "LoadImage",
                                 path |-> At(view.state.index.roms,
                                             last'.message.index).boxart_path]>>
              /\ BagIn(last'.task[1], tasks'))]_vars

\* WroteNewImage(1, 2) was processed in a RomList with rom 0 selected: the
\* size of rom 1 is recorded, rom 0 is as it was, there is no preview and
\* one load of rom 1's box art is pending.
C17_Witness ==
    /\ last.message = WroteNewImage(1, 2)
    /\ view.kind = "RomList"
    /\ view.state.index.roms[2].boxart_size = 2
    /\ view.state.index.roms[1].boxart_size = 3
    /\ view.selected_image = None
    /\ view.selected_index = Some(0)
    /\ tasks = SetToBag({load_image_task(view.state.index.roms[2].boxart_path)})

\* C18: after a replace-image task (from the clipboard or from the file
\* picker) for rom i succeeds with new size s, the index records
\* boxart_size s for rom i and an image reload is scheduled, in every
\* interleaving of the user's navigation with the task's completion: the
\* index never keeps a stale size for a file that was written. (The moment
\* the index can record it is the step that processes WroteNewImage(i, s):
\* no later step reads the file's size again.)
C18_WrittenSizeIsRecorded ==
    [][(last'.message.type = "WroteNewImage" /\ view.kind \in StateKinds)
          => (/\ view'.kind \in StateKinds
              /\ InRange(view'.state.index.roms, last'.message.index)
              /\ At(view'.state.index.roms, last'.message.index).boxart_size
                    = last'.message.size
              /\ last'.task # <<>>
              /\ last'.task[1].op = "LoadImage")]_vars

\* C19: when the user cancels a dialog (the folder picker of Setup or the
\* file picker of 'choose replacement image' returns no path), the
\* completion event is a silent no-op: the view is unchanged, no error is
\* appended to errors, and nothing is scheduled.
C19_CancelledDialogIsSilent ==
    [][(\E t \in BagToSet(tasks) :
          /\ t.op \in {"PickFile", "PickFolder"}
          /\ last'.message = (IF t.op = "PickFile" THEN PickFileCancelled
                              ELSE PickFolderCancelled)
          /\ tasks' = (tasks (-) SetToBag({t})) (+) TaskBag(last'.task))
          => (view' = view /\ last'.task = <<>>)]_vars

\* C20: a successful image-load completion (SetRomInfoImage) that arrives
\* when the view is not RomList (the user navigated away after selecting a
\* rom) leaves the view exactly as it was, errors included, and schedules
\* no task.
C20_StaleImageIsAbsorbed ==
    [][(last'.message.type = "SetRomInfoImage" /\ view.kind # "RomList")
          => (/\ view' = view
              /\ last'.task = <<>>
              /\ ~panicked')]_vars

\* The load of a selected rom's image completed after the user went back
\* to the collection list.
C20_Witness ==
    /\ last.message.type = "SetRomInfoImage"
    /\ view.kind = "CollectionList"
    /\ Len(view.state.index.roms) = 2
    /\ last.task = <<>>
    /\ tasks = EmptyBag

IsPrefix(s, t) == Len(s) <= Len(t) /\ SubSeq(t, 1, Len(s)) = s

\* C21: in a session, every step from a view that holds a State to a view
\* that holds a State, the step that installs the scan result included,
\* leaves the errors recorded before it as a prefix of the errors after it.
C21_ErrorsAppendOnly ==
    [][(HasState(view) /\ HasState(view'))
          => IsPrefix(view.state.errors, view'.state.errors)]_vars

\* An error recorded in the rom list behind the one the setup step left.
C21_Witness ==
    /\ view.kind = "RomList"
    /\ last.message.type = "RecordError"
    /\ Len(view.state.errors) = 2
    /\ view.state.errors[2] = last.message.error
    /\ view.state.errors[1] # last.message.error

Installed(self) == self.kind \in {"CollectionList", "RomList", "ErrorList"}

\* C22: once the scan result is installed, every step keeps the collections,
\* the number and order of the roms and each rom's name and boxart_path; a
\* rom's boxart_size changes only in a step that processes WroteNewImage for
\* that rom's index.
C22_IndexFrame ==
    [][(Installed(view) /\ HasState(view'))
          => /\ view'.state.index.collections = view.state.index.collections
             /\ Len(view'.state.index.roms) = Len(view.state.index.roms)
             /\ \A k \in 1..Len(view.state.index.roms) :
                  /\ view'.state.index.roms[k].name = view.state.index.roms[k].name
                  /\ view'.state.index.roms[k].boxart_path
                        = view.state.index.roms[k].boxart_path
                  /\ view'.state.index.roms[k].boxart_size
                        # view.state.index.roms[k].boxart_size
                     => /\ last'.message.type = "WroteNewImage"
                        /\ last'.message.index = k - 1]_vars

\* The size of a replaced image recorded on the second rom, the first rom
\* and the collections as the scan left them.
C22_Witness ==
    /\ view.kind = "RomList"
    /\ last.message = WroteNewImage(1, 2)
    /\ Len(view.state.index.roms) = 2
    /\ view.state.index.roms[2].boxart_size = 2
    /\ view.state.index.roms[1].boxart_size = 3
    /\ Len(view.state.index.collections) = 1

\* The state main starts the session in.
AtStart == last.message.type = "Init"

\* C23: the session starts in Setup, never in FatalError: with the path of a
\* config that exists and parses, with no path and no error when there is no
\* config file, and with no path and an error when the config cannot be read
\* or parsed.
C23_InitialViewIsSetup ==
    AtStart =>
        /\ view.kind = "Setup"
        /\ IsSome(view.chosen_path) <=> cfg \in Paths
        /\ cfg \in Paths => view = Setup(Some(cfg), None)
        /\ cfg = "absent" => view = Setup(None, None)
        /\ cfg \in {"unreadable", "corrupt"}
              => view.chosen_path = None /\ IsSome(view.error)

\* The session of a config that does not parse starts in Setup with an error.
C23_Witness ==
    /\ AtStart
    /\ cfg = "corrupt"
    /\ view.kind = "Setup"
    /\ view.chosen_path = None
    /\ IsSome(view.error)

PersistErrors ==
    {ERROR_NO_HOME_DIRECTORY,
     Err("ERROR_PREFIX_CONFIG_DIR_CREATE", NoPath, "io"),
     Err("ERROR_PREFIX_CONFIG_FILE_CREATE", NoPath, "io")}

\* What a scan of the directory folder of the disk d, on its own, finds and
\* reports: r is what index_roms returned for it.
ScanFinds(r) ==
    [index |-> r.state.index,
     errors |-> r.state.errors
                \o (IF IsSome(r.result) THEN <<Unwrap(r.result)>> ELSE <<>>)]

ScanAlone(d, folder) == ScanFinds(index_roms(FreshState(folder), d[folder]))

\* C24: when the task of SetupDone ends without having persisted the config
\* (the config is not the chosen folder afterwards), the view still becomes
\* CollectionList, with the index the scan of the chosen folder finds, and
\* errors holds the persistence failure first and the scan's errors after it.
C24_PersistFailureDoesNotStopSession ==
    [][(/\ view.kind = "Loading"
        /\ last'.message.type = "CompletedIndexing"
        /\ cfg' # view.state.roms_folder)
          => /\ view' = CollectionList(last'.message.state)
             /\ view'.state.index = ScanAlone(disk, view.state.roms_folder).index
             /\ Len(view'.state.errors) >= 1
             /\ view'.state.errors[1] \in PersistErrors
             /\ view'.state.errors
                   = <<view'.state.errors[1]>>
                     \o ScanAlone(disk, view.state.roms_folder).errors]_vars

\* The config directory could not be created and the chosen folder could not
\* be listed: CollectionList holds both errors, in that order.
C24_Witness ==
    /\ view.kind = "CollectionList"
    /\ last.message.type = "CompletedIndexing"
    /\ cfg = "absent"
    /\ Len(view.state.errors) = 2
    /\ view.state.errors[1] = Err("ERROR_PREFIX_CONFIG_DIR_CREATE", NoPath, "io")
    /\ view.state.errors[2].msg = "ERROR_PREFIX_DIR_READ"

\* C25: a second scan of the same root from a fresh State, the directory
\* being as the first scan left it (with the .media directories it created),
\* gives the Index the first scan gave.
C25_RescanGivesSameIndex ==
    scan.phase = "rescanned" => scan.again.state.index = scan.out.state.index

\* Both scans done; the first created the .media of a collection that holds
\* a rom, so the second finds .media among that collection's entries.
C25_Witness ==
    /\ scan.phase = "rescanned"
    /\ Len(scan.out.state.index.roms) >= 1
    /\ \E i \in 1..Len(scan.before.entries) :
          /\ scan.before.entries[i].kind = "dir"
          /\ scan.before.entries[i].media = "absent"
          /\ scan.out.layout.entries[i].media = "present"
          /\ Len(Listing(scan.out.layout.entries[i]))
                = Len(Listing(scan.before.entries[i])) + 1
          /\ \E k \in 1..Len(scan.out.state.index.collections) :
                scan.out.state.index.collections[k].name = i

\* C26: when every pending task is completed in the end, each SetupDone is
\* followed by the view CollectionList; until then the view stays Loading,
\* and a step from Loading leads to Loading or to CollectionList only.
C26_SetupDoneLeadsToCollectionList ==
    /\ (last.message.type = "SetupDone") ~> (view.kind = "CollectionList")
    /\ [](last.message.type = "SetupDone" => view.kind = "Loading")
    /\ [][view.kind = "Loading"
             => view'.kind \in {"Loading", "CollectionList"}]_vars

\* CollectionList reached though the config was persisted and the chosen
\* folder could not be listed.
C26_Witness ==
    /\ view.kind = "CollectionList"
    /\ last.message.type = "CompletedIndexing"
    /\ cfg = view.state.roms_folder
    /\ Len(view.state.errors) = 1
    /\ view.state.errors[1].msg = "ERROR_PREFIX_DIR_READ"

\* The tasks a step that processes SelectRom(i) in RomList is to schedule.
LoadFor(rom) ==
    IF rom.boxart_size # 0 THEN <<load_image_task(rom.boxart_path)>> ELSE <<>>

\* C27: SelectRom(i) processed in RomList (i an index of roms) sets
\* selected_index to i and changes nothing else in the view; it schedules
\* one image-load task for roms[i].boxart_path when roms[i].boxart_size is
\* not 0 and no task when it is 0. The image of a load that succeeded,
\* processed while the view is RomList, becomes selected_image. SelectRom
\* processed in any other view changes nothing and schedules nothing.
C27_SelectRomLoadsBoxart ==
    [][/\ (/\ view.kind = "RomList"
           /\ last'.message.type = "SelectRom"
           /\ InRange(view.state.index.roms, last'.message.index))
             => /\ view' = [view EXCEPT !.selected_index = Some(last'.message.index)]
                /\ ~panicked'
                /\ last'.task = LoadFor(At(view.state.index.roms, last'.message.index))
                /\ tasks' = tasks (+) TaskBag(last'.task)
       /\ (view.kind = "RomList" /\ last'.message.type = "SetRomInfoImage")
             => view' = [view EXCEPT !.selected_image = Some(last'.message.image)]
       /\ (view.kind # "RomList" /\ last'.message.type = "SelectRom")
             => /\ view' = view
                /\ ~panicked'
                /\ last'.task = <<>>
                /\ tasks' = tasks]_vars

\* SelectRom has just been processed for a rom with box art: the rom is
\* selected and the load of its boxart_path is the one task pending.
C27_Witness ==
    /\ view.kind = "RomList"
    /\ last.message.type = "SelectRom"
    /\ view.selected_index = Some(last.message.index)
    /\ InRange(view.state.index.roms, last.message.index)
    /\ At(view.state.index.roms, last.message.index).boxart_size # 0
    /\ tasks = SetToBag({load_image_task(
                            At(view.state.index.roms, last.message.index).boxart_path)})

\* C28: in every RomList state with selected_image set, selected_index is
\* set and the image is the decoded box art of the rom at selected_index,
\* however selections, navigation, image replacements and the completions
\* of image loads interleave.
C28_PreviewIsOfSelectedRom ==
    (view.kind = "RomList" /\ IsSome(view.selected_image))
        => /\ IsSome(view.selected_index)
           /\ InRange(view.state.index.roms, Unwrap(view.selected_index))
           /\ Unwrap(view.selected_image).path
                 = At(view.state.index.roms, Unwrap(view.selected_index)).boxart_path

\* C29: in the sessions the rendered views and the completions of scheduled
\* tasks drive, no step panics; a RomList with selected_index = Some(i) has
\* i inside state.index.roms; and every SelectRom(i) and WroteNewImage(i, _)
\* processed in RomList has i inside state.index.roms.
C29_NoIndexPanics ==
    [][/\ ~panicked'
       /\ (view'.kind = "RomList" /\ IsSome(view'.selected_index))
             => InRange(view'.state.index.roms, Unwrap(view'.selected_index))
       /\ (view.kind = "RomList"
           /\ last'.message.type \in {"SelectRom", "WroteNewImage"})
             => InRange(view.state.index.roms, last'.message.index)]_vars

\* WroteNewImage has just been processed in RomList for the last rom of the
\* index, which is the rom selected.
C29_Witness ==
    /\ view.kind = "RomList"
    /\ ~panicked
    /\ last.message.type = "WroteNewImage"
    /\ last.message.index = Len(view.state.index.roms) - 1
    /\ view.selected_index = Some(last.message.index)

\* The places of the index idx of roms in the rom_indices of the
\* collections: the pairs of a collection and a position in its rom_indices.
Owners(index, idx) ==
    {kj \in UNION {{<<k, j>> : j \in 1..Len(index.collections[k].rom_indices)} :
                      k \in 1..Len(index.collections)} :
        index.collections[kj[1]].rom_indices[kj[2]] = idx}

\* C30: after a scan, every index of Index.roms is in the rom_indices of
\* exactly one Collection of the Index, exactly once, also when the indexing
\* of a collection directory failed part-way through its entries.
C30_CollectionsPartitionRoms ==
    scan.phase = "scanned" =>
        \A idx \in 0..(Len(scan.out.state.index.roms) - 1) :
            Cardinality(Owners(scan.out.state.index, idx)) = 1

\* C31: in the sessions the rendered views and the completions of scheduled
\* tasks drive, the step that processes SetupDone leaves a view that holds a
\* State for the folder confirmed, and every step from a view that holds a
\* State leads to a view that holds a State (Loading, CollectionList,
\* RomList or ErrorList, never Setup or FatalError) with the same
\* roms_folder.
C31_SessionKeepsItsFolder ==
    [][/\ last'.message.type = "SetupDone"
             => /\ view'.kind = "Loading"
                /\ view'.state.roms_folder = last'.message.folder
       /\ HasState(view)
             => /\ HasState(view')
                /\ view'.state.roms_folder = view.state.roms_folder]_vars

\* A folder picker opened in Setup completes with another folder while the
\* scan of the confirmed folder is in flight.
C31_Witness ==
    /\ view.kind = "Loading"
    /\ last.message.type = "RomDirectoryChosen"
    /\ last.message.folder # view.state.roms_folder
====
